---- MODULE Spec2Model ----
(***************************************************************************)
(* Model of the finance database layer: the scoped unit of work of         *)
(* connection.py (get_db_session) and the repository operations of         *)
(* repositories.py over the three tables of models.py.                     *)
(*                                                                         *)
(* A row is a function from column names to values; a column holding NULL  *)
(* is absent from the row's domain.  A field map (the **kwargs of create   *)
(* and update) is a function from keyword names to values.                 *)
(*                                                                         *)
(* Columns kept: accounts(id, name, is_active, updated_at);                *)
(* import_sessions(id, status, validation_notes); transactions(id,         *)
(* account_id, import_session_id, transaction_date, amount, description,   *)
(* category, source_hash, updated_at).                                     *)
(* name stands for the NOT NULL text columns of an account.  Amounts are   *)
(* in thousandths of a currency unit; dates and clock readings are         *)
(* integers in chronological order; the rows of a store left by earlier    *)
(* runs were written at time 0.                                            *)
(***************************************************************************)
EXTENDS Integers, FiniteSets, Sequences, TLC

\* ------------------------------------------------------------------ bounds
MaxAcct == 2      \* account identifiers are 1..MaxAcct
MaxImp == 1       \* import session identifiers are 1..MaxImp
MaxTxn == 2       \* transaction identifiers are 1..MaxTxn
MaxOps == 2       \* repository/session calls made in one run, over all scopes
MaxScopes == 2    \* scopes opened one after the other
MaxBatch == 2     \* records in one create_bulk call
MaxDate == 2      \* transaction dates and range bounds are 0..MaxDate
MaxRows == 2      \* transactions in a store the queries are run on
MaxCalls == 3     \* calls of the connection manager made one after the other
MaxThreads == 2   \* threads calling the connection manager at the same time
MaxEach == 1      \* calls each of these threads makes

VARIABLES
    db,          \* the committed content of the store file, per table
    pc,          \* "idle": no scope open; "body": inside the with-block;
                 \* "raising": an error is propagating out of the with-block
    view,        \* the content the open session's transaction sees
    pending,     \* session.new: instances added but not yet flushed
    fresh,       \* ids of transactions whose attributes were set in this session
    err,         \* the error propagating out of the body ("none" if none)
    open,        \* sessions created by get_db_session and not yet closed
    closes,      \* session.close() calls made by the scope that last exited
    atEntry,     \* db as it was when the current/last scope was entered
    atExit,      \* the session as it was when the last scope began to exit
    outcome,     \* how the last scope ended: what its caller saw
                 \* (both kept until the next scope makes its first call)
    last,        \* the last repository call: operation, arguments, result
    bulk,        \* the create_bulk call of the current/last scope, if any
    ops,         \* calls made so far
    scopes,      \* scopes entered so far
    clock,       \* what datetime.now(timezone.utc) returns at present; every
                 \* call is made later than the one before
    conn         \* the connection manager: the module globals of
                 \* connection.py, the store files, and the threads calling it

vars == <<db, pc, view, pending, fresh, err, open, closes, atEntry, atExit,
          outcome, last, bulk, ops, scopes, clock, conn>>

\* ------------------------------------------------------------------ schema
Tables == {"accounts", "import_sessions", "transactions"}

Columns(t) ==
    CASE t = "accounts" -> {"id", "name", "is_active", "updated_at"}
      [] t = "import_sessions" -> {"id", "status", "validation_notes"}
      [] t = "transactions" -> {"id", "account_id", "import_session_id",
                                "transaction_date", "amount", "description",
                                "category", "source_hash", "updated_at"}

\* nullable=False columns other than the primary key and the timestamps, which
\* always get their default
NotNull(t) ==
    CASE t = "accounts" -> {"name", "is_active"}
      [] t = "import_sessions" -> {"status"}
      [] t = "transactions" -> {"account_id", "import_session_id",
                                "transaction_date", "amount", "description"}

\* The relationship attributes of the mapped classes
Relationships(t) ==
    CASE t = "accounts" -> {"transactions"}
      [] t = "import_sessions" -> {"transactions"}
      [] t = "transactions" -> {"account", "import_session"}

\* The other attributes of the mapped classes: methods and what DeclarativeBase
\* gives every class
Methods(t) ==
    IF t = "transactions" THEN {"calculate_hash", "metadata"} ELSE {"metadata"}

Ids(t) ==
    CASE t = "accounts" -> 1..MaxAcct
      [] t = "import_sessions" -> 1..MaxImp
      [] t = "transactions" -> 1..MaxTxn

EmptyMap == [k \in {} |-> 0]

EmptyStore == [t \in Tables |-> {}]

IdsOf(rows) == {r["id"] : r \in rows}


\* Restriction of a function to the keys in S
Restrict(f, S) == [k \in (DOMAIN f) \cap S |-> f[k]]

\* f overridden by g on g's keys
Override(f, g) == [k \in (DOMAIN f) \cup (DOMAIN g) |->
                     IF k \in DOMAIN g THEN g[k] ELSE f[k]]

\* ------------------------------------------------------------------ values
Names == {"a", "b"}
Amounts == {2550, 2554}      \* 25.50 and 25.504

\* Numeric(12, 2) read back from SQLite: the stored float is formatted to two
\* fractional digits, i.e. rounded to a multiple of ten thousandths.
Quantize(a) == ((a + 5) \div 10) * 10

\* ------------------------------------------------------------------ models
\* hasattr(model, key): the names that are attributes of the mapped class
Attrs(t) == Columns(t) \cup Relationships(t) \cup Methods(t)

\* The constructor of a mapped class accepts exactly the names that are
\* attributes of the class; any other keyword raises TypeError.
ConstructorOk(t, f) == DOMAIN f \subseteq Attrs(t)

None == [tag |-> "None"]

\* The columns whose values are structured (a digest, a JSON payload); for
\* these a field map may carry an explicit None.
Structured == {"source_hash", "validation_notes"}

IsNone(f, k) == k \in Structured /\ f[k] = None

\* model(**kwargs): the column attributes the instance holds; an attribute set
\* to None is a NULL column, like one not set
Construct(t, f) ==
    [k \in {c \in (DOMAIN f) \cap Columns(t) : ~IsNone(f, c)} |-> f[k]]

\* Transaction.calculate_hash: the SHA-256 digest of the four identifying
\* fields as formatted into the hash input.  A field is formatted as its text:
\* a value that can be written in more than one way (a Decimal) is given by the
\* way it is written, and an unset field is formatted as the text None, which
\* is also the text of the description "None".
HashField(f, k) ==
    IF k \in DOMAIN f THEN <<f[k]>>
    ELSE IF k = "description" THEN <<"None">> ELSE <<>>

calculate_hash(f) ==
    [sha256 |-> <<HashField(f, "account_id"), HashField(f, "transaction_date"),
                  HashField(f, "amount"), HashField(f, "description")>>]

\* Column defaults applied by the INSERT of a flush when the attribute is unset:
\* id = uuid4(), is_active = True, status = PENDING.
Defaults(t, row, u) ==
    Override([id |-> u] @@
             (IF t = "accounts" THEN [is_active |-> TRUE]
              ELSE IF t = "import_sessions" THEN [status |-> "pending"]
              ELSE EmptyMap),
             row)

\* What an instance loaded from a stored row shows to the caller.
Load(t, row) ==
    IF t = "transactions" /\ "amount" \in DOMAIN row
    THEN [row EXCEPT !["amount"] = Quantize(row["amount"])]
    ELSE row

\* The instance the session's identity map holds for a stored row: attributes the
\* caller set in this session keep the caller's value, the others are loaded.
Instance(t, row, fr) ==
    IF t = "transactions" /\ row["id"] \in fr THEN row ELSE Load(t, row)

Obj(t, row, fr) == [tag |-> "instance", row |-> Instance(t, row, fr)]
Bool(b) == [tag |-> "bool", val |-> b]
Objs(sq) == [tag |-> "list", rows |-> sq]
Number(n) == [tag |-> "int", val |-> n]

\* ------------------------------------------------------------------ session
\* The state of one SQLAlchemy session: base is the committed store its
\* transaction started from, view what its transaction sees, pending the
\* instances added and not yet flushed (session.new), fresh the transactions
\* whose amount attribute the caller set in this session; now is the reading
\* of the clock during the call being made.
Result(ok, e, s, ret) == [ok |-> ok, err |-> e, s |-> s, ret |-> ret]

Pend(t, row) == [table |-> t, row |-> row]

\* uuid4() results for the pending instances, one each
GenChoices(pend) ==
    {g \in [1..Len(pend) -> 1..(MaxAcct + MaxImp + MaxTxn)] :
        \A i \in 1..Len(pend) : g[i] \in Ids(pend[i].table)}

\* The rows a flush inserts: the pending instances with their defaults applied
Inserted(pend, gen) ==
    [i \in 1..Len(pend) |-> Defaults(pend[i].table, pend[i].row, gen[i])]

\* The default of updated_at, datetime.now(timezone.utc), applied at the INSERT
Stamp(t, row, now) ==
    IF "updated_at" \in Columns(t) /\ "updated_at" \notin DOMAIN row
    THEN row @@ [updated_at |-> now]
    ELSE row

\* The rows as written by a flush of session s
Written(s, gen) ==
    [i \in 1..Len(s.pending) |->
        Stamp(s.pending[i].table, Inserted(s.pending, gen)[i], s.now)]

\* The constraints SQLite enforces on the INSERTs of a flush: NOT NULL and the
\* primary key.  Foreign keys are not among them: the engine is created without
\* PRAGMA foreign_keys=ON.
FlushOk_noPK(vw, pend, gen) ==
    LET ins == Inserted(pend, gen) IN
    \A i \in 1..Len(pend) : NotNull(pend[i].table) \subseteq DOMAIN ins[i]

FlushOk_uniqueHash(vw, pend, gen) ==
    LET ins == Inserted(pend, gen) IN
    /\ \A i \in 1..Len(pend) : NotNull(pend[i].table) \subseteq DOMAIN ins[i]
    /\ \A i \in 1..Len(pend) : ins[i]["id"] \notin IdsOf(vw[pend[i].table])
    /\ \A i, j \in 1..Len(pend) :
          (i < j /\ pend[i].table = pend[j].table) => ins[i]["id"] # ins[j]["id"]
    /\ \A i \in 1..Len(pend) :
          (pend[i].table = "transactions" /\ "source_hash" \in DOMAIN ins[i]) =>
             \A r \in vw["transactions"] :
                "source_hash" \in DOMAIN r => r["source_hash"] # ins[i]["source_hash"]

FlushOk(vw, pend, gen) ==
    LET ins == Inserted(pend, gen) IN
    /\ \A i \in 1..Len(pend) : NotNull(pend[i].table) \subseteq DOMAIN ins[i]
    /\ \A i \in 1..Len(pend) : ins[i]["id"] \notin IdsOf(vw[pend[i].table])
    /\ \A i, j \in 1..Len(pend) :
          (i < j /\ pend[i].table = pend[j].table) => ins[i]["id"] # ins[j]["id"]

\* session.flush(): on success the pending instances are rows of the view; on a
\* constraint violation the session's transaction is rolled back.
flush(s, gen) ==
    LET ins == Written(s, gen) IN
    IF FlushOk(s.view, s.pending, gen)
    THEN Result(TRUE, "none",
                [s EXCEPT
                   !.view = [t \in Tables |->
                               @[t] \cup {ins[i] : i \in {j \in 1..Len(s.pending) :
                                                           s.pending[j].table = t}}],
                   !.pending = <<>>,
                   !.fresh = @ \cup {ins[i]["id"] : i \in
                                {j \in 1..Len(s.pending) :
                                    /\ s.pending[j].table = "transactions"
                                    /\ "amount" \in DOMAIN s.pending[j].row}}],
                None)
    ELSE Result(FALSE, "IntegrityError",
                [s EXCEPT !.view = s.base, !.pending = <<>>, !.fresh = {}],
                None)

\* session.rollback()
rollback(s) == [s EXCEPT !.view = s.base, !.pending = <<>>, !.fresh = {}]

commit_lost(s, gen) ==
    LET fl == flush(s, gen) IN
    IF ~fl.ok THEN fl
    ELSE Result(TRUE, "none", rollback(s), None)

\* session.commit(): flush, then COMMIT: what the transaction sees is the
\* committed store
commit(s, gen) ==
    LET fl == flush(s, gen) IN
    IF ~fl.ok THEN fl
    ELSE Result(TRUE, "none", [fl.s EXCEPT !.base = fl.s.view], None)

\* --------------------------------------------------------------- repository
\* query(model).filter(model.id == id)
Matching(vw, t, id) == {r \in vw[t] : r["id"] = id}

get_unfiltered(s, t, id) ==
    IF s.view[t] = {} THEN None
    ELSE Obj(t, CHOOSE r \in s.view[t] : \A q \in s.view[t] : r["id"] <= q["id"],
             s.fresh)

\* BaseRepository.get: query(model).filter(model.id == id).first()
get(s, t, id) ==
    LET m == Matching(s.view, t, id) IN
    IF m = {} THEN None ELSE Obj(t, CHOOSE r \in m : TRUE, s.fresh)

\* BaseRepository.create: model(**kwargs); session.add; session.flush
\* create without the flush: the instance stays pending
create_unflushed(s, t, f, gen) ==
    IF ~ConstructorOk(t, f) THEN Result(FALSE, "TypeError", s, None)
    ELSE Result(TRUE, "none",
                [s EXCEPT !.pending = Append(@, Pend(t, Construct(t, f)))],
                [tag |-> "instance", row |-> Construct(t, f)])

create(s, t, f, gen) ==
    IF ~ConstructorOk(t, f) THEN Result(FALSE, "TypeError", s, None)
    ELSE LET s1 == [s EXCEPT !.pending = Append(@, Pend(t, Construct(t, f)))]
             fl == flush(s1, gen)
             n  == Len(s1.pending)
         IN IF fl.ok
            THEN Result(TRUE, "none", fl.s,
                        Obj(t, Written(s1, gen)[n], fl.s.fresh))
            ELSE fl

\* hasattr(instance, "updated_at")
HasUpdatedAt(t) == "updated_at" \in Attrs(t)

\* setattr for every key of the patch that is an attribute of the instance (a
\* None is a NULL column), then updated_at = now when the instance has one
Patched_keeps_stamp(t, row, patch, now) ==
    LET set == Restrict(Restrict(patch, Attrs(t)), Columns(t))
        r1  == Override(row, set)
    IN [k \in {c \in DOMAIN r1 : ~IsNone(r1, c)} |-> r1[k]]

Patched(t, row, patch, now) ==
    LET set == Restrict(Restrict(patch, Attrs(t)), Columns(t))
        r1  == Override(row, set)
        r2  == IF HasUpdatedAt(t) THEN Override(r1, [updated_at |-> now]) ELSE r1
    IN [k \in {c \in DOMAIN r2 : ~IsNone(r2, c)} |-> r2[k]]

\* BaseRepository.update when get found the instance: the setattr loop, the
\* timestamp, then session.flush, which emits the UPDATE (of the primary key
\* too, when the patch set it) before the INSERTs of the pending instances
update_found(s, t, id, patch, gen) ==
    LET row0  == CHOOSE r \in Matching(s.view, t, id) : TRUE
        row1  == Patched(t, row0, patch, s.now)
        clash == row1["id"] # id /\ row1["id"] \in IdsOf(s.view[t])
        s1    == [s EXCEPT !.view[t] = (@ \ {row0}) \cup {row1}]
        fl    == flush(s1, gen)
        fr    == IF t = "transactions" /\ "amount" \in DOMAIN patch
                 THEN fl.s.fresh \cup {id} ELSE fl.s.fresh
    IN IF clash THEN Result(FALSE, "IntegrityError", rollback(s), None)
       ELSE IF fl.ok
            THEN Result(TRUE, "none", [fl.s EXCEPT !.fresh = fr], Obj(t, row1, fr))
            ELSE fl

update_flushes(s, t, id, patch, gen) ==
    IF get(s, t, id) = None
    THEN LET fl == flush(s, gen) IN Result(fl.ok, fl.err, fl.s, None)
    ELSE update_found(s, t, id, patch, gen)

\* BaseRepository.update: get; when found, patch and flush; the instance or None
update(s, t, id, patch, gen) ==
    IF get(s, t, id) = None THEN Result(TRUE, "none", s, None)
    ELSE update_found(s, t, id, patch, gen)

\* The delete cascade of the relationships Account.transactions and
\* ImportSession.transactions (cascade="all, delete-orphan"): the children the
\* session loads for the parent being deleted.
Children_none(vw, t, id) == {}

Children(vw, t, id) ==
    IF t = "accounts" THEN {x \in vw["transactions"] : x["account_id"] = id}
    ELSE IF t = "import_sessions"
         THEN {x \in vw["transactions"] : x["import_session_id"] = id}
         ELSE {}

\* BaseRepository.delete: get; when found, session.delete (with its cascade)
\* and session.flush; whether a row was deleted.  The flush emits its INSERTs
\* before its DELETEs.
delete(s, t, id, gen) ==
    IF get(s, t, id) = None THEN Result(TRUE, "none", s, Bool(FALSE))
    ELSE LET gone == [u \in Tables |->
                        (IF u = t THEN Matching(s.view, t, id) ELSE {})
                          \cup (IF u = "transactions"
                                THEN Children(s.view, t, id) ELSE {})]
             fl   == flush(s, gen)
         IN IF fl.ok
            THEN Result(TRUE, "none",
                        [fl.s EXCEPT
                           !.view = [u \in Tables |-> fl.s.view[u] \ gone[u]],
                           !.fresh = @ \ IdsOf(gone["transactions"])],
                        Bool(TRUE))
            ELSE fl

\* TransactionRepository.create_bulk, the loop body for one record: the hash is
\* computed from the record when the key is absent
BulkRow(rec) ==
    IF "source_hash" \in DOMAIN rec THEN Construct("transactions", rec)
    ELSE Construct("transactions",
                   rec @@ [source_hash |-> calculate_hash(Construct("transactions", rec))])

\* The records before the first one whose constructor raises
BulkPrefix(records) ==
    LET bad == {i \in 1..Len(records) : ~ConstructorOk("transactions", records[i])}
    IN IF bad = {} THEN Len(records)
       ELSE (CHOOSE i \in bad : \A j \in bad : i <= j) - 1

\* TransactionRepository.create_bulk: every record is constructed and added in
\* turn, then one flush; a constructor raising leaves the earlier instances
\* pending in the session
create_bulk_flushed(s, records, gen) ==
    LET k  == BulkPrefix(records)
        s1 == [s EXCEPT !.pending =
                  @ \o [i \in 1..k |-> Pend("transactions", BulkRow(records[i]))]]
        fl == flush(s1, gen)
        n0 == Len(s.pending)
    IN IF k < Len(records) THEN Result(FALSE, "TypeError", s1, None)
       ELSE IF fl.ok
            THEN Result(TRUE, "none", fl.s,
                        Objs([i \in 1..k |->
                               Instance("transactions",
                                        Written(s1, gen)[n0 + i],
                                        fl.s.fresh)]))
            ELSE fl

create_bulk_commits(s, records, gen) ==
    LET r == create_bulk_flushed(s, records, gen) IN
    IF r.ok THEN [r EXCEPT !.s.base = r.s.view] ELSE r

create_bulk(s, records, gen) == create_bulk_flushed(s, records, gen)

\* session.add(Account(**f)) by the caller of get_db_session, as in the tests
session_add(s, t, f) ==
    IF ~ConstructorOk(t, f) THEN Result(FALSE, "TypeError", s, None)
    ELSE Result(TRUE, "none",
                [s EXCEPT !.pending = Append(@, Pend(t, Construct(t, f)))], None)

\* AccountRepository.soft_delete: update(id, is_active=False)
soft_delete_removes(s, id, gen) ==
    LET d == delete(s, "accounts", id, gen) IN
    IF d.ok /\ d.ret = Bool(TRUE)
    THEN Result(TRUE, "none", d.s,
                Obj("accounts", CHOOSE r \in Matching(s.view, "accounts", id) : TRUE,
                    s.fresh))
    ELSE Result(d.ok, d.err, d.s, None)

soft_delete(s, id, gen) == update(s, "accounts", id, [is_active |-> FALSE], gen)

\* A notes argument is None or a dict; "if notes:" takes a dict that is not empty
Notes(d) == [dict |-> d]

Truthy(notes) == notes # None /\ notes.dict # {}

\* ImportSessionRepository.update_status: update with the status, and with the
\* notes when "if notes:" holds
update_status(s, id, status, notes, gen) ==
    LET update_data == IF Truthy(notes)
                       THEN [status |-> status, validation_notes |-> notes]
                       ELSE [status |-> status]
    IN update(s, "import_sessions", id, update_data, gen)

\* ------------------------------------------------------------------ queries
\* The instances a query gives for the rows it selects, as a collection
ObjSet(t, rows, fr) == [tag |-> "rows", rows |-> {Instance(t, r, fr) : r \in rows}]

\* The keywords of list/count that pass "if hasattr(self.model, key)"
FilterKeys(t, filters) == (DOMAIN filters) \cap Attrs(t)

\* getattr(model, key) == value raises when the attribute is a relationship
\* and the value a plain one
FilterRaises(t, filters) == FilterKeys(t, filters) \cap Relationships(t) # {}

\* The rows passing every filter(getattr(model, key) == value): for a column,
\* those holding the value (a NULL equals nothing); for a method or another
\* class attribute the comparison is the Python value False, so none
Selected(vw, t, filters) ==
    {r \in vw[t] : \A k \in FilterKeys(t, filters) :
                      k \in Columns(t) /\ k \in DOMAIN r /\ r[k] = filters[k]}

\* BaseRepository.list
list(s, t, filters) ==
    IF FilterRaises(t, filters) THEN Result(FALSE, "InvalidRequestError", s, None)
    ELSE Result(TRUE, "none", s, ObjSet(t, Selected(s.view, t, filters), s.fresh))

\* BaseRepository.count: SELECT count(id) under the same filters
count(s, t, filters) ==
    IF FilterRaises(t, filters) THEN Result(FALSE, "InvalidRequestError", s, None)
    ELSE Result(TRUE, "none", s, Number(Cardinality(Selected(s.view, t, filters))))

\* AccountRepository.get_active
get_active(s) == list(s, "accounts", [is_active |-> TRUE])

\* TransactionRepository.find_duplicates
find_duplicates(s, source_hash) ==
    list(s, "transactions", [source_hash |-> source_hash])

\* The sequences that hold every row of S once
Arrangements(S) ==
    {sq \in [1..Cardinality(S) -> S] :
        \A i, j \in 1..Cardinality(S) : i # j => sq[i] # sq[j]}

\* ORDER BY transaction_date, ascending or descending: rows of equal date come
\* in any order
OrderBy(S, desc) ==
    {sq \in Arrangements(S) :
        \A i, j \in 1..Cardinality(S) :
            i < j => IF desc
                     THEN sq[i]["transaction_date"] >= sq[j]["transaction_date"]
                     ELSE sq[i]["transaction_date"] <= sq[j]["transaction_date"]}

Instances(sq, fr) ==
    Objs([i \in 1..Len(sq) |-> Instance("transactions", sq[i], fr)])

\* "if limit:" holds for an integer other than 0
Limited(limit) == limit # None /\ limit.val # 0

FirstN(sq, n) == SubSeq(sq, 1, IF n < Len(sq) THEN n ELSE Len(sq))

\* TransactionRepository.get_by_account: the lists the query can give
get_by_account(s, account_id, limit) ==
    LET S == {r \in s.view["transactions"] : r["account_id"] = account_id} IN
    {Instances(IF Limited(limit) THEN FirstN(sq, limit.val) ELSE sq, s.fresh) :
        sq \in OrderBy(S, TRUE)}

\* The filter of get_by_date_range and get_total_by_category
InRange(vw, account_id, start_date, end_date) ==
    {r \in vw["transactions"] :
        /\ r["account_id"] = account_id
        /\ r["transaction_date"] >= start_date
        /\ r["transaction_date"] <= end_date}

\* TransactionRepository.get_by_date_range: the lists the query can give
get_by_date_range_open(s, account_id, start_date, end_date) ==
    {Instances(sq, s.fresh) :
        sq \in OrderBy({r \in InRange(s.view, account_id, start_date, end_date) :
                          r["transaction_date"] < end_date}, FALSE)}

get_by_date_range(s, account_id, start_date, end_date) ==
    {Instances(sq, s.fresh) :
        sq \in OrderBy(InRange(s.view, account_id, start_date, end_date), FALSE)}

\* sum(amount) over the rows of S, as stored
RECURSIVE SumStored(_)
SumStored(S) ==
    IF S = {} THEN 0
    ELSE LET r == CHOOSE x \in S : TRUE IN r["amount"] + SumStored(S \ {r})

\* TransactionRepository.get_total_by_category: GROUP BY category; each total
\* is the sum of the stored amounts read back as Numeric(12, 2), then float.
\* The dict is given by its string keys and, apart, its entry for the key None
\* (the group of the rows without category).
get_total_by_category(s, account_id, start_date, end_date) ==
    LET S     == InRange(s.view, account_id, start_date, end_date)
        named == {r \in S : "category" \in DOMAIN r}
    IN [tag   |-> "dict",
        items |-> [c \in {r["category"] : r \in named} |->
                     Quantize(SumStored({r \in named : r["category"] = c}))],
        none  |-> IF S = named THEN <<>>
                  ELSE <<Quantize(SumStored(S \ named))>>]

\* ------------------------------------------------------------ unit of work
\* Exception subclasses are caught by "except Exception"; KeyboardInterrupt
\* is a BaseException and passes it by.
IsException(e) == e \in {"ValueError", "TypeError", "IntegrityError",
                          "InvalidRequestError"}

\* get_db_session after the yield: commit when the body finished, rollback and
\* re-raise when an Exception came out of the body or of the commit, close in
\* every case.  close() ends a transaction still open without committing it.
\* Gives the committed store afterwards, the error the caller sees, and the
\* number of close() calls.
exit_scope_commits(s, e, gen) ==
    LET c == commit(s, gen) IN
    IF c.ok
    THEN [db |-> c.s.base, raised |-> e, closes |-> 1]
    ELSE [db |-> rollback(c.s).base, raised |-> IF e = "none" THEN c.err ELSE e,
          closes |-> 1]

exit_scope_leaks(s, e, gen) ==
    IF e = "none"
    THEN LET c == commit(s, gen) IN
         IF c.ok
         THEN [db |-> c.s.base, raised |-> "none", closes |-> 1]
         ELSE [db |-> rollback(c.s).base, raised |-> c.err, closes |-> 0]
    ELSE [db |-> rollback(s).base, raised |-> e, closes |-> 0]

exit_scope(s, e, gen) ==
    IF e = "none"
    THEN LET c == commit(s, gen) IN
         IF c.ok
         THEN [db |-> c.s.base, raised |-> "none", closes |-> 1]
         ELSE [db |-> rollback(c.s).base, raised |-> c.err, closes |-> 1]
    ELSE IF IsException(e)
         THEN [db |-> rollback(s).base, raised |-> e, closes |-> 1]
         ELSE [db |-> s.base, raised |-> e, closes |-> 1]

\* ------------------------------------------------------------------ inputs
AccountMaps ==
    {[name |-> n] : n \in Names}
      \cup {[id |-> i, name |-> "a"] : i \in Ids("accounts")}
      \cup {EmptyMap, [name |-> "a", bogus |-> TRUE]}

ImportMaps ==
    {EmptyMap, [status |-> "completed"]} \cup {[id |-> i] : i \in Ids("import_sessions")}

\* The required fields that are the same in every transaction given to create
Posted == [transaction_date |-> 1, description |-> "x"]

TxnMaps ==
    {Posted @@ [account_id |-> a, import_session_id |-> i, amount |-> m] :
        a \in Ids("accounts"), i \in Ids("import_sessions"), m \in Amounts}
      \cup {Posted @@ [id |-> x, account_id |-> 1, import_session_id |-> 1,
                       amount |-> 2550] :
              x \in Ids("transactions")}
      \cup {Posted @@ [account_id |-> 1, amount |-> 2550],
            Posted @@ [account_id |-> 1, import_session_id |-> 1, amount |-> 2550,
                       source_hash |-> [given |-> "h1"]],
            Posted @@ [account_id |-> 1, import_session_id |-> 1, amount |-> 2550,
                       bogus |-> TRUE]}

FieldMaps(t) ==
    CASE t = "accounts" -> AccountMaps
      [] t = "import_sessions" -> ImportMaps
      [] t = "transactions" -> TxnMaps

Patches(t) ==
    CASE t = "accounts" -> {[name |-> "b"], [is_active |-> FALSE], [bogus |-> TRUE],
                            [name |-> "b", updated_at |-> 0]}
                             \cup {[id |-> i] : i \in Ids("accounts")}
      [] t = "import_sessions" -> {[status |-> "completed"]}
      [] t = "transactions" ->
            {[account_id |-> a] : a \in Ids("accounts")}
              \cup {[amount |-> m] : m \in Amounts}

BulkRecords ==
    {Posted @@ [account_id |-> a, import_session_id |-> 1, amount |-> 2550] :
        a \in Ids("accounts")}
      \cup {Posted @@ [account_id |-> 1, import_session_id |-> 1, amount |-> 2554,
                       source_hash |-> [given |-> "h1"]],
            Posted @@ [account_id |-> 1, import_session_id |-> 1, amount |-> 2550,
                       source_hash |-> None],
            Posted @@ [account_id |-> 1, import_session_id |-> 1],
            Posted @@ [account_id |-> 1, import_session_id |-> 1, amount |-> 2550,
                       bogus |-> TRUE]}

Batches == UNION {[1..n -> BulkRecords] : n \in 1..MaxBatch}

BodyErrors == {"ValueError", "KeyboardInterrupt"}

NotesArgs == {None, Notes({}), Notes({"warning"})}

\* ------------------------------------------------------ connection manager
\* The module globals _config, _engine and _SessionLocal, the store files the
\* engines open, and the threads calling the module's functions.  A function
\* runs one statement at a time, so the statements of two threads interleave;
\* with one thread the calls follow one another.
DEFAULT_DB_PATH == "finance.db"

\* The paths a caller configures
Paths == {"p.db", "q.db"}

AllPaths == Paths \cup {DEFAULT_DB_PATH}

\* db_path=None
NoArg == "None"

\* DatabaseConfig.__init__: the path given, or the default one, and its URL
DatabaseConfig(db_path) ==
    LET path == IF db_path = NoArg THEN DEFAULT_DB_PATH ELSE db_path IN
    [db_path |-> path, db_url |-> <<"sqlite:///", path>>]

\* The n-th engine made by create_engine, for the store of the URL
create_engine(url, n) == [engine |-> n, url |-> url]

sessionmaker(bind) == [bind |-> bind]

\* The store file an engine opens
StoreOf(e) == e.url[2]

\* A path with no tables under it, and one whose tables hold rows
NoTables == [tables |-> FALSE, rows |-> EmptyStore]

\* Base.metadata.drop_all and create_all on the store of the engine
drop_all(files, e) == [files EXCEPT ![StoreOf(e)] = NoTables]

create_all(files, e) == [files EXCEPT ![StoreOf(e)].tables = TRUE]

\* A thread that is in no call
Resting ==
    [pc |-> "idle", op |-> "none", db_path |-> NoArg, force |-> FALSE,
     econt |-> "none", fcont |-> "none", made |-> None, engine |-> None,
     factory |-> None, session |-> None, ret |-> None, raised |-> "none",
     done |-> FALSE, n |-> 0,
     start |-> [files |-> [p \in AllPaths |-> NoTables], created |-> {},
                engine |-> None, factory |-> None]]

\* The module as imported: the default configuration, nothing cached.  era
\* counts the configurations made, created lists the engines made with the era
\* they were made in, asked is the path of the last configuring call begun,
\* limit bounds the calls a thread makes.
Imported ==
    [config |-> DatabaseConfig(NoArg), engine |-> None, factory |-> None,
     files |-> [p \in AllPaths |-> NoTables], thr |-> <<>>,
     era |-> 0, created |-> {}, asked |-> NoArg, limit |-> 0]

\* Thread t begins the call op at statement pc0
Begin(c, t, op, db_path, force, pc0, econt, fcont) ==
    [c EXCEPT !.asked = IF db_path = NoArg THEN @ ELSE db_path,
              !.thr[t] = [Resting EXCEPT
                            !.n = c.thr[t].n + 1, !.pc = pc0, !.op = op, !.db_path = db_path,
                            !.force = force, !.econt = econt, !.fcont = fcont,
                            !.start = [files |-> c.files, created |-> c.created,
                                       engine |-> c.engine,
                                       factory |-> c.factory]]]

\* The call of thread t returns ret, or raises
Finish(c, t, ret, raised) ==
    [c EXCEPT !.thr[t] = [Resting EXCEPT
                            !.op = c.thr[t].op, !.db_path = c.thr[t].db_path,
                            !.force = c.thr[t].force, !.start = c.thr[t].start,
                            !.n = c.thr[t].n,
                            !.ret = ret, !.raised = raised, !.done = TRUE]]

Goto(c, t, to) == [c EXCEPT !.thr[t].pc = to]

\* get_engine, one statement of it: the test of _engine, create_engine on the
\* URL of _config, the assignment of _engine, and the return of _engine
get_engine(c, t) ==
    LET th == c.thr[t] IN
    CASE th.pc = "ge_test" ->
            Goto(c, t, IF c.engine = None THEN "ge_make" ELSE "ge_ret")
      [] th.pc = "ge_make" ->
            LET e == create_engine(c.config.db_url, Cardinality(c.created) + 1)
            IN [c EXCEPT !.created = @ \cup {[engine |-> e, era |-> c.era]},
                         !.thr[t].made = e, !.thr[t].pc = "ge_store"]
      [] th.pc = "ge_store" ->
            [c EXCEPT !.engine = th.made, !.thr[t].made = None,
                      !.thr[t].pc = "ge_ret"]
      [] th.pc = "ge_ret" ->
            IF th.econt = "return" THEN Finish(c, t, c.engine, "none")
            ELSE [c EXCEPT !.thr[t].engine = c.engine, !.thr[t].pc = th.econt]

\* get_session_factory, one statement of it: the test of _SessionLocal (then
\* get_engine is called), the assignment of the sessionmaker bound to the
\* engine returned, and the return of _SessionLocal
get_session_factory(c, t) ==
    LET th == c.thr[t] IN
    CASE th.pc = "gsf_test" ->
            IF c.factory = None
            THEN [c EXCEPT !.thr[t].pc = "ge_test", !.thr[t].econt = "gsf_make"]
            ELSE Goto(c, t, "gsf_ret")
      [] th.pc = "gsf_make" ->
            [c EXCEPT !.factory = sessionmaker(th.engine),
                      !.thr[t].pc = "gsf_ret"]
      [] th.pc = "gsf_ret" ->
            IF th.fcont = "return" THEN Finish(c, t, c.factory, "none")
            ELSE [c EXCEPT !.thr[t].factory = c.factory, !.thr[t].pc = th.fcont]

\* get_db_session after get_session_factory has returned: the session of the
\* factory, then the with-block, which creates an account, and the exit of the
\* scope.  A session bound to no engine cannot run a statement, and a store
\* without tables has no accounts table to insert into.
get_db_session(c, t, gen) ==
    LET th == c.thr[t] IN
    CASE th.pc = "open" ->
            IF th.factory = None THEN Finish(c, t, None, "TypeError")
            ELSE [c EXCEPT !.thr[t].session = th.factory.bind,
                           !.thr[t].pc = "with"]
      [] th.pc = "with" ->
            IF th.session = None
            THEN Finish(c, t, None, "UnboundExecutionError")
            ELSE LET path == StoreOf(th.session)
                     file == c.files[path]
                     s0   == [base |-> file.rows, view |-> file.rows,
                              pending |-> <<>>, fresh |-> {}, now |-> 1]
                     r    == create(s0, "accounts", [name |-> "a"], gen)
                     x    == exit_scope(r.s, r.err, <<>>)
                 IN IF file.tables
                    THEN Finish([c EXCEPT !.files[path].rows = x.db], t,
                                th.session, x.raised)
                    ELSE Finish(c, t, th.session, "OperationalError")

\* init_database without the drop_all of a forced call
init_database_never_drops(c, t) ==
    LET th == c.thr[t] IN
    CASE th.pc = "init_config" ->
            [c EXCEPT !.config = DatabaseConfig(th.db_path), !.era = @ + 1,
                      !.thr[t].pc = "init_engine"]
      [] th.pc = "init_engine" ->
            [c EXCEPT !.engine = None, !.thr[t].pc = "init_factory"]
      [] th.pc = "init_factory" ->
            [c EXCEPT !.factory = None, !.thr[t].pc = "ge_test",
                      !.thr[t].econt = "init_drop"]
      [] th.pc = "init_drop" ->
            IF th.engine = None THEN Finish(c, t, None, "AttributeError")
            ELSE Goto(c, t, "init_create")
      [] th.pc = "init_create" ->
            Finish([c EXCEPT !.files = create_all(@, th.engine)], t, None,
                   "none")

\* init_database leaving _SessionLocal as it is
init_database_keeps_factory(c, t) ==
    LET th == c.thr[t] IN
    CASE th.pc = "init_config" ->
            [c EXCEPT !.config = DatabaseConfig(th.db_path), !.era = @ + 1,
                      !.thr[t].pc = "init_engine"]
      [] th.pc = "init_engine" ->
            [c EXCEPT !.engine = None, !.thr[t].pc = "init_factory"]
      [] th.pc = "init_factory" ->
            [c EXCEPT !.thr[t].pc = "ge_test", !.thr[t].econt = "init_drop"]
      [] th.pc = "init_drop" ->
            IF th.engine = None THEN Finish(c, t, None, "AttributeError")
            ELSE [c EXCEPT !.files = IF th.force THEN drop_all(@, th.engine)
                                     ELSE @,
                           !.thr[t].pc = "init_create"]
      [] th.pc = "init_create" ->
            Finish([c EXCEPT !.files = create_all(@, th.engine)], t, None,
                   "none")

\* init_database, one statement of it: with a path, the three assignments of
\* the globals; then get_engine is called; then drop_all when forced, and
\* create_all
init_database(c, t) ==
    LET th == c.thr[t] IN
    CASE th.pc = "init_config" ->
            [c EXCEPT !.config = DatabaseConfig(th.db_path), !.era = @ + 1,
                      !.thr[t].pc = "init_engine"]
      [] th.pc = "init_engine" ->
            [c EXCEPT !.engine = None, !.thr[t].pc = "init_factory"]
      [] th.pc = "init_factory" ->
            [c EXCEPT !.factory = None, !.thr[t].pc = "ge_test",
                      !.thr[t].econt = "init_drop"]
      [] th.pc = "init_drop" ->
            IF th.engine = None THEN Finish(c, t, None, "AttributeError")
            ELSE [c EXCEPT !.files = IF th.force THEN drop_all(@, th.engine)
                                     ELSE @,
                           !.thr[t].pc = "init_create"]
      [] th.pc = "init_create" ->
            Finish([c EXCEPT !.files = create_all(@, th.engine)], t, None,
                   "none")

\* set_database_path leaving _SessionLocal as it is
set_database_path_keeps_factory(c, t) ==
    LET th == c.thr[t] IN
    CASE th.pc = "set_config" ->
            [c EXCEPT !.config = DatabaseConfig(th.db_path), !.era = @ + 1,
                      !.thr[t].pc = "set_engine"]
      [] th.pc = "set_engine" ->
            [c EXCEPT !.engine = None, !.thr[t].pc = "set_factory"]
      [] th.pc = "set_factory" ->
            Finish(c, t, None, "none")

\* set_database_path, one statement of it
set_database_path(c, t) ==
    LET th == c.thr[t] IN
    CASE th.pc = "set_config" ->
            [c EXCEPT !.config = DatabaseConfig(th.db_path), !.era = @ + 1,
                      !.thr[t].pc = "set_engine"]
      [] th.pc = "set_engine" ->
            [c EXCEPT !.engine = None, !.thr[t].pc = "set_factory"]
      [] th.pc = "set_factory" ->
            Finish([c EXCEPT !.factory = None], t, None, "none")

get_database_path(c) == [path |-> c.config.db_path]

\* ------------------------------------------------------------------- state
Sess == [base |-> db, view |-> view, pending |-> pending, fresh |-> fresh,
         now |-> clock]

NoCall == [op |-> "none"]

NoBulk == [state |-> "none", rows |-> {}, n |-> 0, final |-> FALSE]

\* A store file left by earlier runs: two accounts, one import session, and one
\* transaction of the first account
SeedStore ==
    [t \in Tables |->
       CASE t = "accounts" ->
               {[id |-> 1, name |-> "a", is_active |-> TRUE, updated_at |-> 0],
                [id |-> 2, name |-> "b", is_active |-> TRUE, updated_at |-> 0]}
         [] t = "import_sessions" ->
               {[id |-> 1, status |-> "pending",
                 validation_notes |-> Notes({"error"})]}
         [] t = "transactions" ->
               {Posted @@ [id |-> 1, account_id |-> 1, import_session_id |-> 1,
                           amount |-> 2550, source_hash |-> [given |-> "h1"],
                           updated_at |-> 0]}]

NoOutcome == [done |-> FALSE, body |-> "none", raised |-> "none", committed |-> FALSE]

NoExit == [view |-> EmptyStore, pending |-> <<>>, now |-> 0]

Init ==
    /\ db \in {EmptyStore, SeedStore}
    /\ pc = "idle"
    /\ view = db
    /\ pending = <<>>
    /\ fresh = {}
    /\ err = "none"
    /\ open = 0
    /\ closes = 0
    /\ atEntry = db
    /\ atExit = NoExit
    /\ outcome = NoOutcome
    /\ last = NoCall
    /\ bulk = NoBulk
    /\ ops = 0
    /\ scopes = 0
    /\ clock = 1
    /\ conn = Imported

\* get_db_session up to the yield: a session of the factory, bound to the store
Enter ==
    /\ pc = "idle"
    /\ scopes < MaxScopes
    /\ pc' = "body"
    /\ view' = db
    /\ pending' = <<>>
    /\ fresh' = {}
    /\ err' = "none"
    /\ open' = open + 1
    /\ closes' = 0
    /\ atEntry' = db
    /\ last' = NoCall
    /\ bulk' = NoBulk
    /\ scopes' = scopes + 1
    /\ UNCHANGED <<db, atExit, outcome, ops, clock, conn>>

\* The effect of a call made in the body: its result is kept, and an error it
\* raises propagates out of the with-block.
Apply(res, call, blk) ==
    /\ pc = "body"
    /\ ops < MaxOps
    /\ db' = res.s.base
    /\ view' = res.s.view
    /\ pending' = res.s.pending
    /\ fresh' = res.s.fresh
    /\ pc' = IF res.ok THEN "body" ELSE "raising"
    /\ err' = res.err
    /\ last' = call @@ [ok |-> res.ok, ret |-> res.ret]
    /\ bulk' = blk
    /\ ops' = ops + 1
    /\ atExit' = NoExit
    /\ outcome' = NoOutcome
    /\ clock' = clock + 1
    /\ UNCHANGED <<open, closes, atEntry, scopes, conn>>

NotFinal == [bulk EXCEPT !.final = FALSE]

Create ==
    \E t \in Tables : \E f \in FieldMaps(t) : \E gen \in GenChoices(Append(pending, Pend(t, f))) :
        Apply(create(Sess, t, f, gen),
              [op |-> "create", table |-> t, f |-> f], NotFinal)

Get ==
    \E t \in Tables : \E id \in Ids(t) :
        Apply(Result(TRUE, "none", Sess, get(Sess, t, id)),
              [op |-> "get", table |-> t, id |-> id], NotFinal)

Update ==
    \E t \in Tables : \E id \in Ids(t) : \E patch \in Patches(t) :
      \E gen \in GenChoices(pending) :
        Apply(update(Sess, t, id, patch, gen),
              [op |-> "update", table |-> t, id |-> id, f |-> patch], NotFinal)

Delete ==
    \E t \in Tables : \E id \in Ids(t) : \E gen \in GenChoices(pending) :
        Apply(delete(Sess, t, id, gen),
              [op |-> "delete", table |-> t, id |-> id], NotFinal)

CreateBulk ==
    \E records \in Batches :
      \E gen \in GenChoices(pending \o [i \in 1..BulkPrefix(records) |->
                                          Pend("transactions", records[i])]) :
        LET res == create_bulk(Sess, records, gen) IN
        Apply(res, [op |-> "create_bulk", f |-> records],
              [state |-> IF res.ok THEN "returned" ELSE "raised",
               rows |-> IF res.ok THEN res.s.view["transactions"] \ view["transactions"]
                        ELSE {},
               n |-> Len(records),
               final |-> TRUE])

SessionAdd ==
    \E f \in {[name |-> "a"], EmptyMap} :
        Apply(session_add(Sess, "accounts", f),
              [op |-> "session_add", table |-> "accounts", f |-> f], NotFinal)

SoftDelete ==
    \E id \in Ids("accounts") : \E gen \in GenChoices(pending) :
        Apply(soft_delete(Sess, id, gen),
              [op |-> "soft_delete", table |-> "accounts", id |-> id], NotFinal)

UpdateStatus ==
    \E id \in Ids("import_sessions") : \E notes \in NotesArgs :
      \E gen \in GenChoices(pending) :
        Apply(update_status(Sess, id, "validated", notes, gen),
              [op |-> "update_status", table |-> "import_sessions", id |-> id,
               status |-> "validated", notes |-> notes], NotFinal)

\* The caller's own code in the with-block raises
BodyRaise ==
    /\ pc = "body"
    /\ \E e \in BodyErrors : err' = e
    /\ pc' = "raising"
    /\ last' = NoCall
    /\ atExit' = NoExit
    /\ outcome' = NoOutcome
    /\ UNCHANGED <<db, view, pending, fresh, open, closes, atEntry, bulk, ops,
                   scopes, clock, conn>>

\* get_db_session after the yield
Exit ==
    /\ pc \in {"body", "raising"}
    /\ \E gen \in GenChoices(pending) :
         LET x == exit_scope(Sess, err, gen) IN
         /\ db' = x.db
         /\ view' = x.db
         /\ closes' = closes + x.closes
         /\ open' = open - x.closes
         /\ outcome' = [done |-> TRUE, body |-> err, raised |-> x.raised,
                        committed |-> x.raised = "none"]
    /\ atExit' = [view |-> view, pending |-> pending, now |-> clock]
    /\ pc' = "idle"
    /\ pending' = <<>>
    /\ fresh' = {}
    /\ err' = "none"
    /\ last' = NoCall
    /\ UNCHANGED <<atEntry, bulk, ops, scopes, clock, conn>>

Next ==
    \/ Enter
    \/ Create
    \/ Get
    \/ Update
    \/ Delete
    \/ CreateBulk
    \/ SessionAdd
    \/ SoftDelete
    \/ UpdateStatus
    \/ BodyRaise
    \/ Exit

Spec == Init /\ [][Next]_vars

\* ------------------------------------------------- the queries on a store
Categories == {"food", "fuel"}

Hashes == {[given |-> "h1"], [given |-> "h2"]}

Dates == 0..MaxDate

\* A stored transaction with its required columns
Stored(i, a, d, m) ==
    [id |-> i, account_id |-> a, import_session_id |-> 1, transaction_date |-> d,
     amount |-> m, description |-> "x", updated_at |-> 0]

\* The transactions a store can hold under identifier i: of either account, on
\* any date, with or without category; and, on one date of the first account,
\* of either amount, with or without source hash
QueryRows(i) ==
    {Stored(i, a, d, 2550) @@ c :
        a \in Ids("accounts"), d \in Dates,
        c \in {EmptyMap} \cup {[category |-> x] : x \in Categories}}
      \cup {Stored(i, 1, 1, m) @@ [category |-> "food"] @@ h :
              m \in Amounts,
              h \in {EmptyMap} \cup {[source_hash |-> x] : x \in Hashes}}

\* Stores of up to MaxRows transactions, an active and an inactive account
QueryStores ==
    {[t \in Tables |->
        CASE t = "accounts" ->
               {[id |-> 1, name |-> "a", is_active |-> TRUE, updated_at |-> 0],
                [id |-> 2, name |-> "b", is_active |-> FALSE, updated_at |-> 0]}
          [] t = "import_sessions" -> {[id |-> 1, status |-> "pending"]}
          [] t = "transactions" -> {rows[i] : i \in DOMAIN rows}] :
       rows \in UNION {{f \in [1..n -> UNION {QueryRows(i) : i \in 1..n}] :
                          \A i \in 1..n : f[i] \in QueryRows(i)} : n \in 0..MaxRows}}

\* A scope is open on the store and makes one query
QueryInit ==
    /\ db \in QueryStores
    /\ pc = "body"
    /\ view = db
    /\ pending = <<>>
    /\ fresh = {}
    /\ err = "none"
    /\ open = 1
    /\ closes = 0
    /\ atEntry = db
    /\ atExit = NoExit
    /\ outcome = NoOutcome
    /\ last = NoCall
    /\ bulk = NoBulk
    /\ ops = MaxOps - 1
    /\ scopes = 1
    /\ clock = 1
    /\ conn = Imported

ListFilters(t) ==
    CASE t = "accounts" -> {[name |-> "a"], [name |-> "a", bogus |-> TRUE],
                            [transactions |-> "x"]}
      [] t = "import_sessions" -> {[status |-> "pending"]}
      [] t = "transactions" ->
            {EmptyMap, [account_id |-> 1], [category |-> "food"],
             [account_id |-> 1, category |-> "food"], [bogus |-> TRUE],
             [category |-> "food", bogus |-> TRUE], [calculate_hash |-> "x"]}

Limits == {None} \cup {Number(n) : n \in 0..MaxRows}

List ==
    \E t \in Tables : \E filters \in ListFilters(t) :
        Apply(list(Sess, t, filters),
              [op |-> "list", table |-> t, f |-> filters], NotFinal)

Count ==
    \E t \in Tables : \E filters \in ListFilters(t) :
        Apply(count(Sess, t, filters),
              [op |-> "count", table |-> t, f |-> filters], NotFinal)

GetActive ==
    Apply(get_active(Sess), [op |-> "get_active"], NotFinal)

FindDuplicates ==
    \E h \in Hashes :
        Apply(find_duplicates(Sess, h),
              [op |-> "find_duplicates", source_hash |-> h], NotFinal)

GetByAccount ==
    \E a \in Ids("accounts") : \E limit \in Limits :
      \E ret \in get_by_account(Sess, a, limit) :
        Apply(Result(TRUE, "none", Sess, ret),
              [op |-> "get_by_account", account_id |-> a, limit |-> limit],
              NotFinal)

GetByDateRange ==
    \E a \in Ids("accounts") : \E start_date \in Dates : \E end_date \in Dates :
      \E ret \in get_by_date_range(Sess, a, start_date, end_date) :
        Apply(Result(TRUE, "none", Sess, ret),
              [op |-> "get_by_date_range", account_id |-> a,
               start_date |-> start_date, end_date |-> end_date], NotFinal)

GetTotalByCategory ==
    \E a \in Ids("accounts") : \E start_date \in Dates : \E end_date \in Dates :
        Apply(Result(TRUE, "none", Sess,
                     get_total_by_category(Sess, a, start_date, end_date)),
              [op |-> "get_total_by_category", account_id |-> a,
               start_date |-> start_date, end_date |-> end_date], NotFinal)

QueryNext ==
    \/ List
    \/ Count
    \/ GetActive
    \/ FindDuplicates
    \/ GetByAccount
    \/ GetByDateRange
    \/ GetTotalByCategory

QuerySpec == QueryInit /\ [][QueryNext]_vars

\* ------------------------------------------- calls of the connection manager
\* A store file left by earlier runs
Existing == [tables |-> TRUE, rows |-> SeedStore]

\* No scope of the repository layer is open
Closed ==
    /\ db = EmptyStore
    /\ pc = "idle"
    /\ view = db
    /\ pending = <<>>
    /\ fresh = {}
    /\ err = "none"
    /\ open = 0
    /\ closes = 0
    /\ atEntry = db
    /\ atExit = NoExit
    /\ outcome = NoOutcome
    /\ bulk = NoBulk
    /\ ops = 0
    /\ scopes = 0
    /\ clock = 1

scope == <<db, pc, view, pending, fresh, err, open, closes, atEntry, atExit,
           outcome, last, bulk, ops, scopes, clock>>

\* The module just imported, each path with or without a store file, and the
\* threads that will call it, each making up to limit calls
Started(threads, limit) ==
    {[Imported EXCEPT !.files = fs, !.thr = [t \in threads |-> Resting],
                      !.limit = limit] :
        fs \in [AllPaths -> {NoTables, Existing}]}

CanBegin(t) == conn.thr[t].pc = "idle" /\ conn.thr[t].n < conn.limit

GetEngine ==
    /\ \E t \in DOMAIN conn.thr :
         \/ /\ CanBegin(t)
            /\ conn' = Begin(conn, t, "get_engine", NoArg, FALSE, "ge_test",
                             "return", "none")
         \/ /\ conn.thr[t].pc \in {"ge_test", "ge_make", "ge_store", "ge_ret"}
            /\ conn' = get_engine(conn, t)
    /\ UNCHANGED scope

GetSessionFactory ==
    /\ \E t \in DOMAIN conn.thr :
         \/ /\ CanBegin(t)
            /\ conn' = Begin(conn, t, "get_session_factory", NoArg, FALSE,
                             "gsf_test", "none", "return")
         \/ /\ conn.thr[t].pc \in {"gsf_test", "gsf_make", "gsf_ret"}
            /\ conn' = get_session_factory(conn, t)
    /\ UNCHANGED scope

GetDbSession ==
    /\ \E t \in DOMAIN conn.thr :
         \/ /\ CanBegin(t)
            /\ conn' = Begin(conn, t, "get_db_session", NoArg, FALSE,
                             "gsf_test", "none", "open")
         \/ /\ conn.thr[t].pc \in {"open", "with"}
            /\ \E gen \in GenChoices(<<Pend("accounts", [name |-> "a"])>>) :
                 conn' = get_db_session(conn, t, gen)
    /\ UNCHANGED scope

InitDatabase ==
    /\ \E t \in DOMAIN conn.thr :
         \/ /\ CanBegin(t)
            /\ \E db_path \in Paths \cup {NoArg} : \E force \in BOOLEAN :
                 conn' = Begin(conn, t, "init_database", db_path, force,
                               IF db_path = NoArg THEN "ge_test"
                               ELSE "init_config",
                               "init_drop", "none")
         \/ /\ conn.thr[t].pc \in {"init_config", "init_engine", "init_factory",
                                   "init_drop", "init_create"}
            /\ conn' = init_database(conn, t)
    /\ UNCHANGED scope

SetDatabasePath ==
    /\ \E t \in DOMAIN conn.thr :
         \/ /\ CanBegin(t)
            /\ \E db_path \in Paths :
                 conn' = Begin(conn, t, "set_database_path", db_path, FALSE,
                               "set_config", "none", "none")
         \/ /\ conn.thr[t].pc \in {"set_config", "set_engine", "set_factory"}
            /\ conn' = set_database_path(conn, t)
    /\ UNCHANGED scope

GetDatabasePath ==
    /\ \E t \in DOMAIN conn.thr :
         /\ CanBegin(t)
         /\ conn' = Finish(Begin(conn, t, "get_database_path", NoArg, FALSE,
                                 "idle", "none", "none"),
                           t, get_database_path(conn), "none")
    /\ UNCHANGED scope

ConfigNext ==
    \/ GetEngine
    \/ GetSessionFactory
    \/ GetDbSession
    \/ InitDatabase
    \/ SetDatabasePath
    \/ GetDatabasePath

\* One thread: the calls are made one after the other
ConfigInit == Closed /\ last = NoCall /\ conn \in Started({1}, MaxCalls)

ConfigSpec == ConfigInit /\ [][ConfigNext]_vars

\* Threads calling at the same time
ThreadInit == Closed /\ last = NoCall /\ conn \in Started(1..MaxThreads, MaxEach)

ThreadSpec == ThreadInit /\ [][ConfigNext]_vars

\* ------------------------------------------------ the hash of a transaction
\* Decimal: the digits and the number of decimal places it is written with
Decimal(coefficient, places) == [coefficient |-> coefficient, places |-> places]

\* Decimal("25.5"), Decimal("25.50") and Decimal("25.504")
Decimals == {Decimal(255, 1), Decimal(2550, 2), Decimal(25504, 3)}

\* The attributes of a transaction that is hashed: the four fields, the
\* description set or not, and a field that is not hashed
HashInputs ==
    {[account_id |-> a, transaction_date |-> d, amount |-> m] @@ x @@ c :
        a \in Ids("accounts"), d \in 0..1, m \in Decimals,
        x \in {EmptyMap, [description |-> "x"], [description |-> "None"]},
        c \in {EmptyMap, [category |-> "food"]}}

\* Two transactions, on whatever store
HashInit ==
    /\ Closed
    /\ conn \in {[Imported EXCEPT !.files = fs] :
                   fs \in {[p \in AllPaths |-> NoTables],
                           [p \in AllPaths |-> Existing]}}
    /\ \E a \in HashInputs : \E b \in HashInputs :
         last = [op |-> "Transaction", a |-> a, b |-> b]

\* calculate_hash() is called on both
CalculateHash ==
    /\ last.op = "Transaction"
    /\ last' = [op |-> "calculate_hash", a |-> last.a, b |-> last.b,
                ha |-> calculate_hash(last.a), hb |-> calculate_hash(last.b)]
    /\ UNCHANGED <<db, pc, view, pending, fresh, err, open, closes, atEntry,
                   atExit, outcome, bulk, ops, scopes, clock, conn>>

HashNext == CalculateHash

HashSpec == HashInit /\ [][HashNext]_vars

\* ================================================================== claims
Exited == pc = "idle" /\ outcome.done

\* The step is a call made in the body: last' is that call
Called == ops' = ops + 1

\* store holds exactly the rows of the session x: those it had flushed and its
\* pending instances, inserted under some generated identifiers
Persisted(x, store) ==
    \E gen \in GenChoices(x.pending) :
        LET fl == flush([base |-> x.view, view |-> x.view, pending |-> x.pending,
                         fresh |-> {}, now |-> x.now], gen)
        IN fl.ok /\ store = fl.s.view

\* C1: when an error is raised inside a scope, after any writes (flushed or
\* not), the committed store after the scope equals the committed store before
\* it, and the caller sees the error that was raised, unchanged.
C1_RollbackOnError ==
    (Exited /\ outcome.body # "none") =>
        (db = atEntry /\ outcome.raised = outcome.body)

C1_Witness ==
    /\ Exited
    /\ outcome.body = "ValueError"
    /\ atExit.view # atEntry
    /\ db = atEntry

C3_SessionReleased ==
    /\ pc = "idle" => open = 0
    /\ pc # "idle" => open = 1
    /\ Exited => closes = 1

C3_Witness ==
    /\ Exited
    /\ outcome.body = "none"
    /\ outcome.raised = "IntegrityError"
    /\ closes = 1
    /\ open = 0

\* C4: create_bulk is all-or-nothing within its scope: when the scope does not
\* commit, the store is as it was at entry, so no row of the batch is
\* persisted; when the scope commits right after create_bulk returned, every
\* record of the batch is a persisted row.
C4_BulkAllOrNothing ==
    (Exited /\ bulk.state # "none") =>
        /\ ~outcome.committed => db = atEntry
        /\ (outcome.committed /\ bulk.final) =>
              /\ bulk.state = "returned"
              /\ bulk.rows \subseteq db["transactions"]
              /\ Cardinality(bulk.rows) = bulk.n

C4_Witness ==
    /\ Exited
    /\ bulk.state = "raised"
    /\ bulk.n = 2
    /\ Len(atExit.pending) = 1
    /\ ~outcome.committed

\* The foreign key by which a transaction references a row of parent table t
ParentKey(t) == IF t = "accounts" THEN "account_id" ELSE "import_session_id"

DeletedParent(call) ==
    /\ call.op = "delete"
    /\ call.table \in {"accounts", "import_sessions"}
    /\ call.ret = Bool(TRUE)

\* C5: after delete(id) of an Account or an ImportSession returns true, no
\* transaction referencing that parent remains, and the transactions of other
\* parents are as they were.
C5_CascadeDelete ==
    [][(Called /\ DeletedParent(last')) =>
         LET k == ParentKey(last'.table) IN
         /\ \A x \in view'["transactions"] : x[k] # last'.id
         /\ view'["transactions"] = {x \in view["transactions"] : x[k] # last'.id}
      ]_vars

C5_Witness ==
    /\ DeletedParent(last)
    /\ last.table = "accounts"
    /\ \E x \in atEntry["transactions"] : x["account_id"] = last.id
    /\ view["transactions"] # {}

RefIntegrity(store) ==
    \A x \in store["transactions"] :
        /\ x["account_id"] \in IdsOf(store["accounts"])
        /\ x["import_session_id"] \in IdsOf(store["import_sessions"])

\* C6: in every reachable state every transaction's account_id names an
\* existing account and its import_session_id an existing import session.
C6_ReferentialIntegrity == RefIntegrity(db) /\ RefIntegrity(view)

Dangling(vw, f) ==
    \/ "account_id" \in DOMAIN f /\ f["account_id"] \notin IdsOf(vw["accounts"])
    \/ "import_session_id" \in DOMAIN f
         /\ f["import_session_id"] \notin IdsOf(vw["import_sessions"])

\* C7: create of a Transaction whose account_id or import_session_id names no
\* existing row raises a constraint violation, and no transaction is added.
C7_CreateRejectsDanglingKey ==
    [][(Called /\ last'.op = "create" /\ last'.table = "transactions"
           /\ Dangling(view, last'.f))
         => /\ ~last'.ok
            /\ err' = "IntegrityError"
            /\ view'["transactions"] \subseteq view["transactions"]
      ]_vars

MissingId(call, vw) ==
    /\ call.op \in {"get", "update", "delete"}
    /\ call.id \notin IdsOf(vw[call.table])

\* C8: for an id naming no row of the table, get and update return None and
\* delete returns False; none raises, and the store is unchanged.
C8_MissingIdIsNotFound ==
    [][(Called /\ MissingId(last', view)) =>
         /\ last'.ok
         /\ pc' = "body"
         /\ last'.ret = (IF last'.op = "delete" THEN Bool(FALSE) ELSE None)
         /\ view' = view
         /\ db' = db
      ]_vars

C8_Witness ==
    /\ last.op = "update"
    /\ last.id \notin IdsOf(view[last.table])
    /\ last.ret = None
    /\ pending # <<>>
    /\ view[last.table] # {}

CreatedWithoutId(call) ==
    /\ call.op = "create"
    /\ call.ok
    /\ "id" \notin DOMAIN call.f

\* C9: when create is given no id and returns, the returned instance carries an
\* identifier that no other row of the table has, and the scope has not
\* committed yet.
C9_CreateAssignsFreshId ==
    [][(Called /\ CreatedWithoutId(last')) =>
         /\ last'.ret.tag = "instance"
         /\ "id" \in DOMAIN last'.ret.row
         /\ last'.ret.row["id"] \notin IdsOf(view[last'.table])
         /\ Cardinality(Matching(view', last'.table, last'.ret.row["id"])) = 1
         /\ pc' = "body"
         /\ db' = db
      ]_vars

C9_Witness ==
    /\ CreatedWithoutId(last)
    /\ Cardinality(view[last.table]) >= 2
    /\ view # db

\* C10: after create(f) returns, get of the returned identifier gives an
\* instance on which every field the caller supplied has the supplied value.
C10_CreateGetRoundTrip ==
    (last.op = "create" /\ last.ok) =>
        LET g == get(Sess, last.table, last.ret.row["id"]) IN
        /\ g.tag = "instance"
        /\ \A k \in DOMAIN last.f : g.row[k] = last.f[k]

C10_Witness ==
    /\ last.op = "create"
    /\ last.ok
    /\ last.table = "transactions"
    /\ last.f["amount"] # Quantize(last.f["amount"])
    /\ Cardinality(view["transactions"]) >= 2

SoftDeleted(call) == call.op = "soft_delete" /\ call.ok /\ call.ret # None

\* C12: soft_delete(id) of an existing account changes on its row the active
\* flag, to false, and the updated timestamp, and nothing else; afterwards
\* get(id) returns the row, get_active() does not contain it, the transactions
\* of the account are all present and every other account is as it was.
C12_SoftDeleteKeepsRow ==
    [][(Called /\ SoftDeleted(last')) =>
         LET id  == last'.id
             old == CHOOSE r \in Matching(view, "accounts", id) : TRUE
             g   == get(Sess', "accounts", id)
             act == get_active(Sess')
         IN /\ g.tag = "instance"
            /\ g.row = [old EXCEPT !["is_active"] = FALSE, !["updated_at"] = clock]
            /\ g = last'.ret
            /\ act.ok
            /\ id \notin IdsOf(act.ret.rows)
            /\ {x \in view["transactions"] : x["account_id"] = id}
                  \subseteq view'["transactions"]
            /\ view["accounts"] \ {old} \subseteq view'["accounts"]
      ]_vars

C12_Witness ==
    /\ SoftDeleted(last)
    /\ \E x \in view["transactions"] : x["account_id"] = last.id
    /\ get(Sess, "accounts", last.id).tag = "instance"
    /\ last.id \notin IdsOf(get_active(Sess).ret.rows)
    /\ get_active(Sess).ret.rows # {}

\* C13: create_bulk returns one created transaction per record, in the order of
\* the records; the source_hash of a record that supplies one is kept, and for
\* a record without one (the key absent, or its value None) it is the digest of
\* that record's own account id, date, amount and description.
C13_BulkHashes ==
    (last.op = "create_bulk" /\ last.ok) =>
        /\ last.ret.tag = "list"
        /\ Len(last.ret.rows) = Len(last.f)
        /\ \A i \in 1..Len(last.f) :
             LET rec == last.f[i]
                 row == last.ret.rows[i]
             IN /\ \A k \in (DOMAIN rec) \ {"source_hash"} : row[k] = rec[k]
                /\ "source_hash" \in DOMAIN row
                /\ row["source_hash"] =
                      IF "source_hash" \in DOMAIN rec /\ rec["source_hash"] # None
                      THEN rec["source_hash"]
                      ELSE calculate_hash(Construct("transactions", rec))

\* The elements of a sequence
Elements(sq) == {sq[i] : i \in 1..Len(sq)}

\* The transactions of an account as a query shows them
Shown(rows) == {Load("transactions", r) : r \in rows}

OfAccount(vw, a) == {r \in vw["transactions"] : r["account_id"] = a}

\* C14: get_by_date_range(account_id, start, end) returns exactly the
\* transactions of the account dated d with start <= d <= end, each once, none
\* of another account, in ascending order of date.
C14_DateRange ==
    (last.op = "get_by_date_range" /\ last.ok) =>
        LET rows == last.ret.rows
            want == Shown({r \in OfAccount(view, last.account_id) :
                             /\ last.start_date <= r["transaction_date"]
                             /\ r["transaction_date"] <= last.end_date})
        IN /\ Elements(rows) = want
           /\ Len(rows) = Cardinality(want)
           /\ \A i, j \in 1..Len(rows) :
                 i < j => rows[i]["transaction_date"] <= rows[j]["transaction_date"]

C14_Witness ==
    /\ last.op = "get_by_date_range"
    /\ last.start_date < last.end_date
    /\ Len(last.ret.rows) = 2
    /\ last.ret.rows[1]["transaction_date"] = last.start_date
    /\ last.ret.rows[2]["transaction_date"] = last.end_date

\* C15: get_by_account(account_id, limit) returns only transactions of the
\* account, each once, most recent first; all of them without limit, and with a
\* limit n >= 0 the n most recent (all when there are fewer).
C15_ByAccount ==
    (last.op = "get_by_account" /\ last.ok) =>
        LET rows == last.ret.rows
            all  == Shown(OfAccount(view, last.account_id))
        IN /\ Elements(rows) \subseteq all
           /\ Len(rows) = Cardinality(Elements(rows))
           /\ \A i, j \in 1..Len(rows) :
                 i < j => rows[i]["transaction_date"] >= rows[j]["transaction_date"]
           /\ \A x \in all \ Elements(rows) : \A y \in Elements(rows) :
                 x["transaction_date"] <= y["transaction_date"]
           /\ last.limit = None => Len(rows) = Cardinality(all)
           /\ last.limit # None =>
                 Len(rows) = IF last.limit.val < Cardinality(all)
                             THEN last.limit.val ELSE Cardinality(all)

\* The arithmetic sum of the amounts the transactions of S show
RECURSIVE SumShown(_)
SumShown(S) ==
    IF S = {} THEN 0
    ELSE LET r == CHOOSE x \in S : TRUE
         IN Load("transactions", r)["amount"] + SumShown(S \ {r})

\* C16: get_total_by_category(account_id, start, end) maps exactly the
\* categories of the account's transactions dated within [start, end], each to
\* the arithmetic sum of the amounts of those transactions; a category without
\* a transaction in range is no key of the mapping.
C16_TotalsByCategory ==
    (last.op = "get_total_by_category" /\ last.ok) =>
        LET S     == {r \in OfAccount(view, last.account_id) :
                        /\ last.start_date <= r["transaction_date"]
                        /\ r["transaction_date"] <= last.end_date}
            named == {r \in S : "category" \in DOMAIN r}
            ret   == last.ret
        IN /\ DOMAIN ret.items = {r["category"] : r \in named}
           /\ \A c \in DOMAIN ret.items :
                 ret.items[c] = SumShown({r \in named : r["category"] = c})
           /\ ret.none = IF S = named THEN <<>> ELSE <<SumShown(S \ named)>>

\* The transactions of a view holding the source hash h
WithHash(vw, h) ==
    {r \in vw["transactions"] : "source_hash" \in DOMAIN r /\ r["source_hash"] = h}

\* C17: duplicate detection is advisory.  In every state of a scope, create of
\* a transaction whose source hash an existing transaction has succeeds exactly
\* when the same create without the hash does; when it does, the existing
\* transactions are kept, and find_duplicates(h) gives exactly the transactions
\* holding h, the created one among them.
C17_DuplicatesAdvisory ==
    /\ pc = "body" =>
         \A f \in TxnMaps :
           ("source_hash" \in DOMAIN f /\ WithHash(view, f["source_hash"]) # {}) =>
             \A gen \in GenChoices(Append(pending, Pend("transactions", f))) :
               LET h  == f["source_hash"]
                   c  == create(Sess, "transactions", f, gen)
                   c0 == create(Sess, "transactions",
                                Restrict(f, (DOMAIN f) \ {"source_hash"}), gen)
                   d  == find_duplicates(c.s, h)
               IN /\ c.ok = c0.ok
                  /\ c.ok => /\ WithHash(view, h) \subseteq c.s.view["transactions"]
                             /\ d.ok
                             /\ d.ret.rows = {Instance("transactions", r, c.s.fresh) :
                                                r \in WithHash(c.s.view, h)}
                             /\ c.ret.row \in d.ret.rows
                             /\ Cardinality(d.ret.rows) >= 2
    /\ (last.op = "create" /\ last.ok /\ last.table = "transactions"
          /\ "source_hash" \in DOMAIN last.f) =>
         LET d == find_duplicates(Sess, last.f["source_hash"]) IN
         /\ d.ok
         /\ last.ret.row \in d.ret.rows
         /\ Cardinality(d.ret.rows) = Cardinality(WithHash(view, last.f["source_hash"]))

C17_Witness ==
    /\ last.op = "create"
    /\ last.ok
    /\ last.table = "transactions"
    /\ "source_hash" \in DOMAIN last.f
    /\ Cardinality(WithHash(view, last.f["source_hash"])) >= 2
    /\ Cardinality(find_duplicates(Sess, last.f["source_hash"]).ret.rows) >= 2

\* C18: list(filters) returns exactly the rows equal to the given value on every
\* filter key that is a field of the entity, a key that is no field being
\* ignored without raising; count(filters) is the number of those rows.
C18_ListFilters ==
    (last.op \in {"list", "count"}) =>
        LET t    == last.table
            want == {Load(t, r) : r \in
                       {x \in view[t] : \A k \in (DOMAIN last.f) \cap Columns(t) :
                                           k \in DOMAIN x /\ x[k] = last.f[k]}}
        IN /\ last.ok
           /\ last.op = "list" => last.ret.rows = want
           /\ last.op = "count" => last.ret = Number(Cardinality(want))

Updated(call) == call.op = "update" /\ call.ok /\ call.ret # None

\* The row update(id, patch) leaves for the row it was called on
UpdatedRow(vw, call) ==
    CHOOSE r \in Matching(vw, call.table,
                          IF "id" \in DOMAIN call.f THEN call.f["id"] ELSE call.id) :
        TRUE

\* What update leaves alone: the fields the patch does not name keep their
\* value, the timestamp is that of the call, the other rows are as they were,
\* and the only rows added are the instances that were pending.
UpdateFrame(t, old, new, patch) ==
    /\ \A k \in (Columns(t) \ DOMAIN patch) \ {"updated_at"} :
          /\ k \in DOMAIN old <=> k \in DOMAIN new
          /\ k \in DOMAIN old => new[k] = old[k]
    /\ HasUpdatedAt(t) => new["updated_at"] = clock
    /\ \A u \in Tables :
          (IF u = t THEN view[u] \ {old} ELSE view[u]) \subseteq view'[u]
    /\ Cardinality(UNION {view'[u] : u \in Tables})
          <= Cardinality(UNION {view[u] : u \in Tables}) + Len(pending)

\* C19 as stated: update(id, fields) on an existing row gives every field named
\* in fields the supplied value and leaves the rest alone.
C19_UpdateIsPartialPatch_Original ==
    [][(Called /\ Updated(last')) =>
         LET t   == last'.table
             old == CHOOSE r \in Matching(view, t, last'.id) : TRUE
             new == UpdatedRow(view', last')
         IN /\ \A k \in (DOMAIN last'.f) \cap Columns(t) : new[k] = last'.f[k]
            /\ UpdateFrame(t, old, new, last'.f)
      ]_vars

\* C19 amended: update(id, fields) on an existing row gives every field named in
\* fields, other than the updated timestamp, the supplied value; the updated
\* timestamp is that of the call whether named or not, every other field keeps
\* its value, and no other row changes.
C19_UpdateIsPartialPatch ==
    [][(Called /\ Updated(last')) =>
         LET t   == last'.table
             old == CHOOSE r \in Matching(view, t, last'.id) : TRUE
             new == UpdatedRow(view', last')
         IN /\ \A k \in ((DOMAIN last'.f) \cap Columns(t)) \ {"updated_at"} :
                  new[k] = last'.f[k]
            /\ UpdateFrame(t, old, new, last'.f)
      ]_vars

C19_Witness ==
    /\ Updated(last)
    /\ last.table = "accounts"
    /\ last.f = [name |-> "b", updated_at |-> 0]
    /\ last.ret.row["name"] = "b"
    /\ last.ret.row["updated_at"] > 0
    /\ Cardinality(view["accounts"]) >= 2

\* C20: update_status(id, status, notes) on an existing import session sets its
\* status; when notes are supplied, an empty payload included, the stored
\* validation notes are exactly the payload, and when none are supplied the
\* stored notes are as they were.
C20_UpdateStatus ==
    [][(Called /\ last'.op = "update_status" /\ last'.ok /\ last'.ret # None) =>
         LET old == CHOOSE r \in Matching(view, "import_sessions", last'.id) : TRUE
             new == CHOOSE r \in Matching(view', "import_sessions", last'.id) : TRUE
         IN /\ new["status"] = last'.status
            /\ last'.notes # None =>
                  /\ "validation_notes" \in DOMAIN new
                  /\ new["validation_notes"] = last'.notes
            /\ last'.notes = None =>
                  /\ "validation_notes" \in DOMAIN new
                        <=> "validation_notes" \in DOMAIN old
                  /\ "validation_notes" \in DOMAIN new =>
                        new["validation_notes"] = old["validation_notes"]
      ]_vars

\* The call thread t made last has returned or raised
Returned(t, op) == conn.thr[t].done /\ conn.thr[t].op = op

\* The engine was made under the present configuration
Current(e) == [engine |-> e, era |-> conn.era] \in conn.created

\* C21: after set_database_path(p) or init_database(p, ...) the engine and the
\* session factory cached before are discarded, get_database_path() returns
\* p, and every scope opened afterwards is bound to the store at p, by an
\* engine made after the call.
C21_Reconfigure ==
    \A t \in DOMAIN conn.thr :
        LET th == conn.thr[t] IN
        /\ Returned(t, "set_database_path") =>
              /\ get_database_path(conn).path = th.db_path
              /\ conn.engine = None
              /\ conn.factory = None
        /\ (Returned(t, "init_database") /\ th.db_path # NoArg) =>
              /\ get_database_path(conn).path = th.db_path
              /\ conn.factory = None
              /\ conn.engine # None
              /\ StoreOf(conn.engine) = th.db_path
              /\ Current(conn.engine)
        /\ Returned(t, "get_database_path") =>
              (conn.asked # NoArg => th.ret.path = conn.asked)
        /\ (conn.asked # NoArg /\ th.session # None) =>
              (StoreOf(th.session) = conn.asked /\ Current(th.session))
        /\ (conn.asked # NoArg /\ Returned(t, "get_db_session")
              /\ th.ret # None) =>
              (StoreOf(th.ret) = conn.asked /\ Current(th.ret))

\* A scope has committed to the store configured last, after an engine and a
\* factory for another store had been cached
C21_Witness ==
    \E t \in DOMAIN conn.thr :
        LET th == conn.thr[t] IN
        /\ Returned(t, "get_db_session")
        /\ th.raised = "none"
        /\ conn.asked # NoArg
        /\ StoreOf(th.ret) = conn.asked
        /\ conn.files[conn.asked].rows # th.start.files[conn.asked].rows
        /\ \E x \in conn.created : x.era < conn.era /\ StoreOf(x.engine) # conn.asked

\* C22: after init_database the tables exist in the configured store; a forced
\* call leaves them empty, and a call that is not forced leaves every row that
\* was in the store before the call as it was.
C22_Initialize ==
    \A t \in DOMAIN conn.thr :
        LET th     == conn.thr[t]
            path   == conn.config.db_path
            before == th.start.files[path]
            after  == conn.files[path]
        IN (Returned(t, "init_database") /\ th.raised = "none") =>
              /\ after.tables
              /\ th.force => after.rows = EmptyStore
              /\ ~th.force => after.rows = before.rows

\* A forced call has emptied a store that held rows
C22_Witness ==
    \E t \in DOMAIN conn.thr :
        LET th == conn.thr[t] IN
        /\ Returned(t, "init_database")
        /\ th.raised = "none"
        /\ th.force
        /\ th.start.files[conn.config.db_path].rows # EmptyStore
        /\ conn.files[conn.config.db_path] = [tables |-> TRUE, rows |-> EmptyStore]

\* C24: at most one engine is made under one configuration, whichever threads
\* call get_engine, get_session_factory and get_db_session and however their
\* calls interleave.
C24_SingleEngine ==
    \A x, y \in conn.created : x.era = y.era => x = y

\* No call is under way
Quiet == \A t \in DOMAIN conn.thr : conn.thr[t].pc = "idle"

\* C25: between calls, a cached session factory is bound to the cached engine,
\* and a cached engine was made from the URL of the present configuration,
\* under that configuration.
C25_CachesCurrent ==
    Quiet =>
        /\ conn.factory # None =>
              (conn.engine # None /\ conn.factory.bind = conn.engine)
        /\ conn.engine # None =>
              (conn.engine.url = conn.config.db_url /\ Current(conn.engine))

\* A factory is cached after a reconfiguration that discarded an engine
C25_Witness ==
    /\ Quiet
    /\ conn.factory # None
    /\ conn.factory.bind = conn.engine
    /\ \E x \in conn.created : x.era < conn.era


\* The value of a Decimal, in thousandths
Thousandths(d) ==
    d.coefficient * (CASE d.places = 1 -> 100 [] d.places = 2 -> 10
                       [] d.places = 3 -> 1)

\* The two transactions have the same value in field k: both unset, or equal
SameField(a, b, k) ==
    /\ (k \in DOMAIN a) = (k \in DOMAIN b)
    /\ k \in DOMAIN a =>
          IF k = "amount" THEN Thousandths(a[k]) = Thousandths(b[k])
          ELSE a[k] = b[k]

HashedFields == {"account_id", "transaction_date", "amount", "description"}

Differing(a, b) == {k \in HashedFields : ~SameField(a, b, k)}

\* C23: two transactions with the same values of account id, date, amount and
\* description have the same digest, whatever their other fields and the
\* store; two that differ in exactly one of the four have different digests.
C23_HashPure ==
    last.op = "calculate_hash" =>
        /\ Differing(last.a, last.b) = {} => last.ha = last.hb
        /\ Cardinality(Differing(last.a, last.b)) = 1 => last.ha # last.hb


\* The open session finds the instance: by get, in list, in count, and for a
\* transaction in get_by_account of its account
Found(t, row) ==
    /\ "id" \in DOMAIN row
    /\ get(Sess, t, row["id"]) = [tag |-> "instance", row |-> row]
    /\ row \in list(Sess, t, EmptyMap).ret.rows
    /\ count(Sess, t, EmptyMap).ret.val
         = Cardinality(list(Sess, t, EmptyMap).ret.rows)
    /\ t = "transactions" =>
          \A ret \in get_by_account(Sess, row["account_id"], None) :
              row \in Elements(ret.rows)

\* The open session finds no row of the identifier
Absent(t, id) ==
    /\ get(Sess, t, id) = None
    /\ \A row \in list(Sess, t, EmptyMap).ret.rows : row["id"] # id
    /\ count(Sess, t, [id |-> id]).ret.val = 0

\* C26: inside a scope, before it commits, the session reads its own writes:
\* after create and create_bulk the created rows are found, after update the
\* row is found with the new values of the fields named, and after delete the
\* row is absent.
C26_ReadYourWrites ==
    (pc = "body" /\ last.op \in {"create", "create_bulk", "update", "delete"}
       /\ last.ok) =>
        /\ last.op = "create" => Found(last.table, last.ret.row)
        /\ last.op = "create_bulk" =>
              \A i \in 1..Len(last.ret.rows) :
                  Found("transactions", last.ret.rows[i])
        /\ (last.op = "update" /\ last.ret # None) =>
              /\ Found(last.table, last.ret.row)
              /\ \A k \in ((DOMAIN last.f) \cap Columns(last.table))
                             \ {"updated_at"} :
                     last.ret.row[k] = last.f[k]
              /\ last.ret.row["id"] # last.id => Absent(last.table, last.id)
        /\ (last.op = "delete" /\ last.ret.val) => Absent(last.table, last.id)

\* A created transaction is read back while the store does not hold it yet
C26_Witness ==
    /\ pc = "body"
    /\ last.op = "create"
    /\ last.ok
    /\ last.table = "transactions"
    /\ Found("transactions", last.ret.row)
    /\ \A r \in db["transactions"] : r["id"] # last.ret.row["id"]

====
